---- MODULE Spec2Model ----
(***************************************************************************)
(* Model of package diag (diag/diag.go): the Service that stores Diagnosis *)
(* Keys in a Repository, keeps a Cache of their serialised form, hydrates  *)
(* the cache at construction and refreshes it from a background loop.      *)
(*                                                                         *)
(* Spec and FairSpec follow the writers of the cache: NewService, the      *)
(* uploads with their Add goroutines, and the refresh loop.  ReadSpec adds *)
(* a caller of ReadSeeker to them.  CodecSpec follows the codec alone:     *)
(* writeDiagnosisKeys and ParseDiagnosisKeys on bounded inputs.            *)
(***************************************************************************)
EXTENDS Integers, Sequences, FiniteSets, TLC

(* ------------------------------ bounds -------------------------------- *)

\* Number of StoreDiagnosisKeys calls the model follows.
MaxUploads == 2

\* Number of steps (half days) the server clock advances.
MaxClockSteps == 1

\* Length of the record sequences handed to writeDiagnosisKeys.
MaxRecords == 2

(* ------------------------- program constants --------------------------- *)

DiagnosisKeySize == 20

defaultMaxUploadBatchSize == 14

\* time.Time{}: the zero timestamp.
ZeroTime == 0

\* The server clock counts half days; a calendar day is two of them.
DayTicks == 2

\* The first instant of the server clock: the second half of the third day
\* from ZeroTime, so that records of the day before can be in the Repository
\* and the next instant falls on the day after.
StartClock == 2 * DayTicks + 1

\* A nil error.
Nil == "nil"

ErrNilDiagKeys == "diag: diagnosis keys is nil"

ErrMaxUploadExceeded == "diag: maximum upload batch size exceeded"

\* Any other error a Repository or Cache call returns.
ErrOther == "error"

\* context.Canceled, the value of ctx.Err() after a cancellation.
Canceled == "context canceled"

\* io.EOF
EOF == "EOF"

\* io.ErrUnexpectedEOF
ErrUnexpectedEOF == "unexpected EOF"

(* ------------------------------ values --------------------------------- *)

KeyA == [i \in 1..16 |-> 170]

KeyB == [i \in 1..16 |-> i]

\* A DiagnosisKey as ParseDiagnosisKeys yields it: UploadedAt is not set.
DiagnosisKey(key, enin) ==
    [TemporaryExposureKey |-> key, ENIntervalNumber |-> enin, UploadedAt |-> ZeroTime]

DK1 == DiagnosisKey(KeyA, 1)

DK2 == DiagnosisKey(KeyB, 16909060)

\* The batches a caller hands to StoreDiagnosisKeys.
Batches == { <<>>, <<DK2, DK1>> }

\* A Repository that holds a record uploaded the day before.
OldRecords == <<[DK1 EXCEPT !.UploadedAt = StartClock - DayTicks]>>

\* The Config NewService is called with and what its Repository then holds:
\* no Logger; the default batch size over a Repository with a record; a batch
\* size of one over an empty Repository.
Constructions ==
    { [cfg |-> [Logger |-> FALSE, MaxUploadBatchSize |-> 0], repo |-> <<>>],
      [cfg |-> [Logger |-> TRUE, MaxUploadBatchSize |-> 0], repo |-> OldRecords],
      [cfg |-> [Logger |-> TRUE, MaxUploadBatchSize |-> 1], repo |-> <<>>] }

Uploads == 1..MaxUploads

\* The instants time.Now() can return.
Times == StartClock..(StartClock + MaxClockSteps)

\* The timestamps a caller hands to ReadSeeker: the zero timestamp, and an
\* instant in the second half of each day an upload can fall on and of the
\* day after the last of them.
Sinces ==
    {ZeroTime} \cup { t - (t % DayTicks) + 1 : t \in Times }
               \cup { StartClock + MaxClockSteps + DayTicks
                        - ((StartClock + MaxClockSteps) % DayTicks) + 1 }

Max(a, b) == IF a >= b THEN a ELSE b

\* The ENIntervalNumbers of the records handed to the codec: the lowest
\* byte alone, four different bytes, and the largest value of a
\* 32-bit signed integer, the range TLC computes in.
Intervals == { 1, 16909060, 2147483647 }

\* The records handed to writeDiagnosisKeys, with and without UploadedAt.
CodecRecords ==
    { [DiagnosisKey(key, enin) EXCEPT !.UploadedAt = at] :
         key \in {KeyA, KeyB}, enin \in Intervals, at \in {ZeroTime, StartClock} }

RecordSeqs == UNION { [1..n -> CodecRecords] : n \in 0..MaxRecords }

(* ------------------------------- codec --------------------------------- *)

\* PutUint32 as it would be with the bytes in little-endian order.
PutUint32_LittleEndian(v) ==
    << v % 256, (v \div 256) % 256, (v \div 65536) % 256, (v \div 16777216) % 256 >>

\* binary.BigEndian.PutUint32
PutUint32(v) ==
    << (v \div 16777216) % 256, (v \div 65536) % 256, (v \div 256) % 256, v % 256 >>

\* writeDiagnosisKeys as it would be without the Write of the interval.
RECURSIVE writeDiagnosisKeys_KeyOnly(_)
writeDiagnosisKeys_KeyOnly(diagKeys) ==
    IF diagKeys = <<>> THEN <<>>
    ELSE Head(diagKeys).TemporaryExposureKey \o writeDiagnosisKeys_KeyOnly(Tail(diagKeys))

RECURSIVE writeDiagnosisKeys(_)
writeDiagnosisKeys(diagKeys) ==
    IF diagKeys = <<>> THEN <<>>
    ELSE Head(diagKeys).TemporaryExposureKey
           \o PutUint32(Head(diagKeys).ENIntervalNumber)
           \o writeDiagnosisKeys(Tail(diagKeys))

\* binary.BigEndian.Uint32
Uint32(b) == ((b[1] * 256 + b[2]) * 256 + b[3]) * 256 + b[4]

\* ParseDiagnosisKeys as it would be without the case that refuses a length
\* that is no multiple of DiagnosisKeySize.
ParseDiagnosisKeys_NoFramingCase(buf, err) ==
    IF err # Nil /\ err # EOF THEN <<<<>>, err>>
    ELSE IF Len(buf) = 0 THEN <<<<>>, ErrUnexpectedEOF>>
    ELSE << [i \in 1..(Len(buf) \div DiagnosisKeySize) |->
               DiagnosisKey(
                 SubSeq(buf, (i - 1) * DiagnosisKeySize + 1, (i - 1) * DiagnosisKeySize + 16),
                 Uint32(SubSeq(buf, (i - 1) * DiagnosisKeySize + 17,
                               i * DiagnosisKeySize)))],
            Nil >>

\* ParseDiagnosisKeys, given what ioutil.ReadAll(r) returns: <<diagKeys, error>>.
ParseDiagnosisKeys(buf, err) ==
    IF err # Nil /\ err # EOF THEN <<<<>>, err>>
    ELSE IF Len(buf) = 0 THEN <<<<>>, ErrUnexpectedEOF>>
    ELSE IF Len(buf) % DiagnosisKeySize # 0 THEN <<<<>>, ErrUnexpectedEOF>>
    ELSE << [i \in 1..(Len(buf) \div DiagnosisKeySize) |->
               DiagnosisKey(
                 SubSeq(buf, (i - 1) * DiagnosisKeySize + 1, (i - 1) * DiagnosisKeySize + 16),
                 Uint32(SubSeq(buf, (i - 1) * DiagnosisKeySize + 17,
                               i * DiagnosisKeySize)))],
            Nil >>

\* What a writer holds after `writes` calls of Write went through: each
\* record is written in two calls, 16 bytes and then 4.
Written(diagKeys, writes) ==
    SubSeq(writeDiagnosisKeys(diagKeys), 1,
           (writes \div 2) * DiagnosisKeySize + (writes % 2) * 16)

\* What ioutil.ReadAll(r) gives ParseDiagnosisKeys: the bytes of one more
\* record than MaxRecords, cut at every length, and the reader's error.
ReadAlls ==
    { [buf |-> SubSeq(writeDiagnosisKeys([i \in 1..(MaxRecords + 1) |->
                                            IF i % 2 = 1 THEN DK2 ELSE DK1]), 1, n),
       err |-> err] :
         n \in 0..((MaxRecords + 1) * DiagnosisKeySize), err \in {Nil, EOF, ErrOther} }

(* ----------------------------- Repository ------------------------------ *)

\* Repository.StoreDiagnosisKeys: the records are appended, stamped createdAt.
RepoStore(r, diagKeys, createdAt) ==
    r \o [i \in 1..Len(diagKeys) |-> [diagKeys[i] EXCEPT !.UploadedAt = createdAt]]

\* Repository.FindAllDiagnosisKeys
RepoFindAll(r) == r

RECURSIVE MaxUploadedAt(_)
MaxUploadedAt(r) ==
    IF r = <<>> THEN ZeroTime ELSE Max(Head(r).UploadedAt, MaxUploadedAt(Tail(r)))

\* Repository.LastModified: <<timestamp, error>>; no records yet is the
\* sentinel ErrNilDiagKeys.
RepoLastModified(r) ==
    IF r = <<>> THEN <<ZeroTime, ErrNilDiagKeys>> ELSE <<MaxUploadedAt(r), Nil>>

(* -------------------------------- Cache -------------------------------- *)

\* time.Time.Truncate(24 * time.Hour)
TruncateDay(t) == t - (t % DayTicks)

EmptyCache == [buf |-> <<>>, offsets |-> <<>>, lastModified |-> ZeroTime]

HasDay(offsets, day) == \E i \in 1..Len(offsets) : offsets[i].day = day

\* The day index after records uploaded at `at` were appended at offset `off`.
IndexDay(offsets, at, off) ==
    IF HasDay(offsets, TruncateDay(at)) THEN offsets
    ELSE Append(offsets, [day |-> TruncateDay(at), offset |-> off])

RECURSIVE SetOffsets(_, _, _)
SetOffsets(diagKeys, offsets, off) ==
    IF diagKeys = <<>> THEN offsets
    ELSE SetOffsets(Tail(diagKeys),
                    IndexDay(offsets, Head(diagKeys).UploadedAt, off),
                    off + DiagnosisKeySize)

\* Cache.Set: the whole snapshot is recomputed and installed.
CacheSet(diagKeys, lastModified) ==
    [buf |-> writeDiagnosisKeys(diagKeys),
     offsets |-> SetOffsets(diagKeys, <<>>, 0),
     lastModified |-> lastModified]

\* Cache.Add: the new records are appended to the current snapshot.
CacheAdd(c, diagKeys, uploadedAt) ==
    [buf |-> c.buf \o writeDiagnosisKeys(diagKeys),
     offsets |-> IndexDay(c.offsets, uploadedAt, Len(c.buf)),
     lastModified |-> Max(c.lastModified, uploadedAt)]

\* Cache.LastModified
CacheLastModified(c) == c.lastModified

\* The entries of the day index for `day` or, when it has none, for the
\* nearest later day.
NearestDay(offsets, day) ==
    { i \in 1..Len(offsets) :
         /\ offsets[i].day >= day
         /\ \A j \in 1..Len(offsets) : offsets[j].day >= day => offsets[j].day >= offsets[i].day }

\* Cache.ReadSeeker: the bytes of the view, a copy of the current buffer from
\* offset 0 for the zero timestamp, from the indexed offset of the day of
\* `since` otherwise, and no bytes when no day is indexed at or after it.
CacheReadSeeker(c, since) ==
    IF since = ZeroTime THEN c.buf
    ELSE IF NearestDay(c.offsets, TruncateDay(since)) = {} THEN <<>>
    ELSE LET i == CHOOSE j \in NearestDay(c.offsets, TruncateDay(since)) : TRUE
         IN  SubSeq(c.buf, c.offsets[i].offset + 1, Len(c.buf))

(* ------------------------------- state --------------------------------- *)

VARIABLES
    cfg,        \* the Config handed to NewService
    svc,        \* the Service: NewService's position, the hydrateCache calls
                \* it made and what the first returned, maxUploadBatchSize
    ctxErr,     \* ctx.Err() of the context handed to NewService
    clock,      \* the latest instant time.Now() returned
    repo,       \* the Repository's records
    cache,      \* the Cache's snapshot
    hyd,        \* the running hydrateCache call and its caller's position
    loop,       \* the refresh goroutine: position and last log entry
    up,         \* the StoreDiagnosisKeys calls and their Add goroutines: the
                \* locals of a call while it runs, what it returned, and
                \* what its goroutine holds until it has run
    rd,         \* a caller of ReadSeeker: the view it was handed and what it
                \* read through it
    codec       \* a caller of ParseDiagnosisKeys and writeDiagnosisKeys: its
                \* position, the reader and the records it hands in, and what
                \* the calls gave back

vars == <<cfg, svc, ctxErr, clock, repo, cache, hyd, loop, up, rd, codec>>

IdleHydrate == [pc |-> "idle", diagKeys |-> <<>>, lastModified |-> ZeroTime]

IdleUpload ==
    [pc |-> "idle", diagKeys |-> <<>>, now |-> ZeroTime, err |-> Nil,
     add |-> "none", addKeys |-> <<>>, addAt |-> ZeroTime]

IdleReader == [pc |-> "idle", since |-> ZeroTime, view |-> <<>>, out |-> <<>>]

IdleCodec ==
    [pc |-> "idle", start |-> "none", diagKeys |-> <<>>, w |-> <<>>, werr |-> Nil,
     r |-> [buf |-> <<>>, err |-> Nil], out |-> <<>>, err |-> Nil]

Init ==
    /\ \E c \in Constructions : cfg = c.cfg /\ repo = c.repo
    /\ svc = [state |-> "Uninitialized", maxUploadBatchSize |-> 0, hydrations |-> 0,
              err |-> "none"]
    /\ ctxErr = Nil
    /\ clock = StartClock
    /\ cache = EmptyCache
    /\ hyd = IdleHydrate
    /\ loop = [pc |-> "none", log |-> "none"]
    /\ up = [u \in Uploads |-> IdleUpload]
    /\ rd = IdleReader
    /\ codec = IdleCodec

(* ----------------------------- NewService ------------------------------ *)

\* NewService, up to the call of hydrateCache: a nil Logger is refused, the
\* batch size defaults, and the first hydration starts.
NewService ==
    /\ svc.state = "Uninitialized"
    /\ IF ~cfg.Logger
       THEN /\ svc' = [svc EXCEPT !.state = "Failed"]
            /\ hyd' = hyd
       ELSE /\ svc' = [state |-> "Hydrating",
                       maxUploadBatchSize |->
                           IF cfg.MaxUploadBatchSize = 0
                           THEN defaultMaxUploadBatchSize
                           ELSE cfg.MaxUploadBatchSize,
                       hydrations |-> svc.hydrations + 1,
                       err |-> "none"]
            /\ hyd' = [IdleHydrate EXCEPT !.pc = "findall"]
    /\ UNCHANGED <<cfg, ctxErr, clock, repo, cache, loop, up, rd, codec>>

(* ---------------------------- hydrateCache ----------------------------- *)

\* HydrateReturn as it would be if NewService dropped the error of its
\* hydrateCache call and went on.
HydrateReturn_CtorIgnoresErr(err) ==
    IF svc.state = "Hydrating"
    THEN /\ svc' = [svc EXCEPT !.err = err]
         /\ hyd' = [IdleHydrate EXCEPT !.pc = "seek"]
         /\ loop' = loop
    ELSE /\ svc' = svc
         /\ hyd' = [IdleHydrate EXCEPT !.pc = IF err # Nil THEN "idle" ELSE "seek"]
         /\ loop' = IF err # Nil
                    THEN [pc |-> "wait", log |-> "Could not refresh cache"]
                    ELSE loop

\* HydrateReturn as it would be if refreshCache returned the error of a
\* failed hydration instead of going on with the loop.
HydrateReturn_LoopReturnsErr(err) ==
    IF svc.state = "Hydrating"
    THEN /\ svc' = [svc EXCEPT !.state = IF err # Nil THEN "Failed" ELSE "Hydrating",
                                !.err = err]
         /\ hyd' = [IdleHydrate EXCEPT !.pc = IF err # Nil THEN "idle" ELSE "seek"]
         /\ loop' = loop
    ELSE /\ svc' = svc
         /\ hyd' = [IdleHydrate EXCEPT !.pc = IF err # Nil THEN "idle" ELSE "seek"]
         /\ loop' = IF err # Nil
                    THEN [pc |-> "stopped", log |-> "Could not refresh cache."]
                    ELSE loop

\* hydrateCache returns err to its caller: NewService fails on an error and
\* goes on to seek the cache otherwise; refreshCache logs an error and waits
\* for the next tick, and goes on to seek the cache otherwise.
HydrateReturn(err) ==
    IF svc.state = "Hydrating"
    THEN /\ svc' = [svc EXCEPT !.state = IF err # Nil THEN "Failed" ELSE "Hydrating",
                                !.err = err]
         /\ hyd' = [IdleHydrate EXCEPT !.pc = IF err # Nil THEN "idle" ELSE "seek"]
         /\ loop' = loop
    ELSE /\ svc' = svc
         /\ hyd' = [IdleHydrate EXCEPT !.pc = IF err # Nil THEN "idle" ELSE "seek"]
         /\ loop' = IF err # Nil
                    THEN [pc |-> "wait", log |-> "Could not refresh cache"]
                    ELSE loop

\* s.repo.FindAllDiagnosisKeys(ctx)
HydrateFindAll ==
    /\ hyd.pc = "findall"
    /\ \E err \in {Nil, ErrOther} :
          IF err # Nil
          THEN HydrateReturn(err)
          ELSE /\ hyd' = [hyd EXCEPT !.pc = "lastmod", !.diagKeys = RepoFindAll(repo)]
               /\ UNCHANGED <<svc, loop>>
    /\ UNCHANGED <<cfg, ctxErr, clock, repo, cache, up, rd, codec>>

\* HydrateLastModified as it would be if the sentinel made it install an
\* empty snapshot before returning nil.
HydrateLastModified_SentinelClears ==
    /\ hyd.pc = "lastmod"
    /\ \E res \in {RepoLastModified(repo), <<ZeroTime, ErrOther>>} :
          IF res[2] = ErrNilDiagKeys
          THEN HydrateReturn(Nil) /\ cache' = EmptyCache
          ELSE IF res[2] # Nil
          THEN HydrateReturn(res[2]) /\ cache' = cache
          ELSE /\ hyd' = [hyd EXCEPT !.pc = "set", !.lastModified = res[1]]
               /\ UNCHANGED <<svc, loop, cache>>
    /\ UNCHANGED <<cfg, ctxErr, clock, repo, up, rd, codec>>

\* HydrateLastModified as it would be if the sentinel were returned to the
\* caller like any other error.
HydrateLastModified_SentinelIsError ==
    /\ hyd.pc = "lastmod"
    /\ \E res \in {RepoLastModified(repo), <<ZeroTime, ErrOther>>} :
          IF res[2] # Nil
          THEN HydrateReturn(res[2])
          ELSE /\ hyd' = [hyd EXCEPT !.pc = "set", !.lastModified = res[1]]
               /\ UNCHANGED <<svc, loop>>
    /\ UNCHANGED <<cfg, ctxErr, clock, repo, cache, up, rd, codec>>

\* s.repo.LastModified(ctx): the sentinel ends the hydration with success.
HydrateLastModified ==
    /\ hyd.pc = "lastmod"
    /\ \E res \in {RepoLastModified(repo), <<ZeroTime, ErrOther>>} :
          IF res[2] = ErrNilDiagKeys
          THEN HydrateReturn(Nil)
          ELSE IF res[2] # Nil
          THEN HydrateReturn(res[2])
          ELSE /\ hyd' = [hyd EXCEPT !.pc = "set", !.lastModified = res[1]]
               /\ UNCHANGED <<svc, loop>>
    /\ UNCHANGED <<cfg, ctxErr, clock, repo, cache, up, rd, codec>>

\* HydrateSet as it would be if it called s.cache.Add with what was read, so
\* that the records are added to the snapshot instead of replacing it.
HydrateSet_Appends ==
    /\ hyd.pc = "set"
    /\ \E err \in {Nil, ErrOther} :
          /\ cache' = IF err # Nil THEN cache
                      ELSE CacheAdd(cache, hyd.diagKeys, hyd.lastModified)
          /\ HydrateReturn(err)
    /\ UNCHANGED <<cfg, ctxErr, clock, repo, up, rd, codec>>

\* s.cache.Set(diagKeys, lastModified)
HydrateSet ==
    /\ hyd.pc = "set"
    /\ \E err \in {Nil, ErrOther} :
          /\ cache' = IF err # Nil THEN cache ELSE CacheSet(hyd.diagKeys, hyd.lastModified)
          /\ HydrateReturn(err)
    /\ UNCHANGED <<cfg, ctxErr, clock, repo, up, rd, codec>>

\* s.cache.ReadSeeker(time.Time{}).Seek(0, io.SeekEnd) after a hydration:
\* NewService fails on an error and otherwise starts the refresh goroutine and
\* returns the Service; refreshCache logs and waits for the next tick.
HydrateSeek ==
    /\ hyd.pc = "seek"
    /\ hyd' = IdleHydrate
    /\ \E err \in {Nil, ErrOther} :
          IF svc.state = "Hydrating"
          THEN /\ svc' = [svc EXCEPT !.state = IF err # Nil THEN "Failed" ELSE "Ready"]
               /\ loop' = IF err # Nil THEN loop ELSE [loop EXCEPT !.pc = "wait"]
          ELSE /\ svc' = svc
               /\ loop' = [pc |-> "wait",
                           log |-> IF err # Nil THEN "Could not seek cache"
                                   ELSE "Cache refreshed."]
    /\ UNCHANGED <<cfg, ctxErr, clock, repo, cache, up, rd, codec>>

(* ---------------------------- refreshCache ----------------------------- *)

\* case <-t.C: the ticker fires and the loop hydrates the cache.
RefreshTick ==
    /\ loop.pc = "wait"
    /\ loop' = [loop EXCEPT !.pc = "hydrate"]
    /\ hyd' = [IdleHydrate EXCEPT !.pc = "findall"]
    /\ UNCHANGED <<cfg, svc, ctxErr, clock, repo, cache, up, rd, codec>>

\* RefreshDone as it would be if the loop went back to the select instead of
\* returning when the context is done.
RefreshDone_KeepsLooping ==
    /\ loop.pc = "wait"
    /\ ctxErr # Nil
    /\ loop' = [pc |-> "wait",
                log |-> IF ctxErr # Canceled THEN "Could not refresh cache." ELSE loop.log]
    /\ UNCHANGED <<cfg, svc, ctxErr, clock, repo, cache, hyd, up, rd, codec>>

\* case <-ctx.Done(): refreshCache returns ctx.Err(); the goroutine logs it
\* unless it is context.Canceled, and ends.
RefreshDone ==
    /\ loop.pc = "wait"
    /\ ctxErr # Nil
    /\ loop' = [pc |-> "stopped",
                log |-> IF ctxErr # Canceled THEN "Could not refresh cache." ELSE loop.log]
    /\ UNCHANGED <<cfg, svc, ctxErr, clock, repo, cache, hyd, up, rd, codec>>

\* The context handed to NewService is cancelled.
Cancel ==
    /\ ctxErr = Nil
    /\ ctxErr' = Canceled
    /\ UNCHANGED <<cfg, svc, clock, repo, cache, hyd, loop, up, rd, codec>>

(* ------------------------- StoreDiagnosisKeys -------------------------- *)

\* A caller enters StoreDiagnosisKeys: now := time.Now().UTC(), an instant
\* not before the one the clock gave last.
StoreBegin(u, diagKeys, now) ==
    /\ svc.state = "Ready"
    /\ up[u].pc = "idle"
    /\ \A v \in Uploads : v < u => up[v].pc # "idle"
    /\ now >= clock
    /\ clock' = now
    /\ up' = [up EXCEPT ![u] = [@ EXCEPT !.pc = "store", !.diagKeys = diagKeys,
                                         !.now = now]]
    /\ UNCHANGED <<cfg, svc, ctxErr, repo, cache, hyd, loop, rd, codec>>

\* StoreDiagnosisKeys as it would be if the goroutine that adds to the cache
\* were started before the Repository's error is looked at.
StoreDiagnosisKeys_AddOnError(u) ==
    /\ up[u].pc = "store"
    /\ \E err \in {Nil, ErrOther} :
          /\ repo' = IF err # Nil THEN repo
                     ELSE RepoStore(repo, up[u].diagKeys, up[u].now)
          /\ up' = [up EXCEPT ![u] = [IdleUpload EXCEPT !.pc = "returned", !.err = err,
                                               !.add = "pending",
                                               !.addKeys = up[u].diagKeys,
                                               !.addAt = up[u].now]]
    /\ UNCHANGED <<cfg, svc, ctxErr, clock, cache, hyd, loop, rd, codec>>

\* StoreDiagnosisKeys as it would be if the goroutine read the clock again
\* instead of using the timestamp the Repository write was given.
StoreDiagnosisKeys_AddAtClock(u) ==
    /\ up[u].pc = "store"
    /\ \E err \in {Nil, ErrOther} :
          IF err # Nil
          THEN /\ up' = [up EXCEPT ![u] = [IdleUpload EXCEPT !.pc = "returned", !.err = err]]
               /\ repo' = repo
          ELSE /\ repo' = RepoStore(repo, up[u].diagKeys, up[u].now)
               /\ up' = [up EXCEPT ![u] = [IdleUpload EXCEPT !.pc = "returned", !.err = Nil,
                                                    !.add = "pending",
                                                    !.addKeys = up[u].diagKeys,
                                                    !.addAt = clock]]
    /\ UNCHANGED <<cfg, svc, ctxErr, clock, cache, hyd, loop, rd, codec>>

\* s.repo.StoreDiagnosisKeys(ctx, diagKeys, now): an error is returned to the
\* caller; otherwise the goroutine that adds to the cache is started and nil
\* is returned.
StoreDiagnosisKeys(u) ==
    /\ up[u].pc = "store"
    /\ \E err \in {Nil, ErrOther} :
          IF err # Nil
          THEN /\ up' = [up EXCEPT ![u] = [IdleUpload EXCEPT !.pc = "returned", !.err = err]]
               /\ repo' = repo
          ELSE /\ repo' = RepoStore(repo, up[u].diagKeys, up[u].now)
               /\ up' = [up EXCEPT ![u] = [IdleUpload EXCEPT !.pc = "returned", !.err = Nil,
                                                    !.add = "pending",
                                                    !.addKeys = up[u].diagKeys,
                                                    !.addAt = up[u].now]]
    /\ UNCHANGED <<cfg, svc, ctxErr, clock, cache, hyd, loop, rd, codec>>

\* The goroutine as it would be if an error of cache.Add were handed to the
\* caller of StoreDiagnosisKeys instead of being logged.
StoreCacheAdd_ErrToCaller(u) ==
    /\ up[u].add = "pending"
    /\ \E err \in {Nil, ErrOther} :
          /\ cache' = IF err # Nil THEN cache
                      ELSE CacheAdd(cache, up[u].addKeys, up[u].addAt)
          /\ up' = [up EXCEPT ![u] = [IdleUpload EXCEPT !.pc = "returned", !.err = err,
                                                    !.add =
                        IF err # Nil THEN "Could not add to cache."
                        ELSE "Cached new diagnosis keys."]]
    /\ UNCHANGED <<cfg, svc, ctxErr, clock, repo, hyd, loop, rd, codec>>

\* The goroutine as it would be if Add wrote the new records through to the
\* view a caller of ReadSeeker already holds.
StoreCacheAdd_GrowsView(u) ==
    /\ up[u].add = "pending"
    /\ \E err \in {Nil, ErrOther} :
          /\ cache' = IF err # Nil THEN cache
                      ELSE CacheAdd(cache, up[u].addKeys, up[u].addAt)
          /\ rd' = IF err # Nil \/ rd.pc # "open" THEN rd
                   ELSE [rd EXCEPT !.view = @ \o writeDiagnosisKeys(up[u].addKeys)]
          /\ up' = [up EXCEPT ![u] = [IdleUpload EXCEPT !.pc = "returned", !.add =
                        IF err # Nil THEN "Could not add to cache."
                        ELSE "Cached new diagnosis keys."]]
    /\ UNCHANGED <<cfg, svc, ctxErr, clock, repo, hyd, loop, codec>>

\* The goroutine of StoreDiagnosisKeys: s.cache.Add(diagKeys, now), and the
\* log entry that tells how it went.
StoreCacheAdd(u) ==
    /\ up[u].add = "pending"
    /\ \E err \in {Nil, ErrOther} :
          /\ cache' = IF err # Nil THEN cache
                      ELSE CacheAdd(cache, up[u].addKeys, up[u].addAt)
          /\ up' = [up EXCEPT ![u] = [IdleUpload EXCEPT !.pc = "returned", !.add =
                        IF err # Nil THEN "Could not add to cache."
                        ELSE "Cached new diagnosis keys."]]
    /\ UNCHANGED <<cfg, svc, ctxErr, clock, repo, hyd, loop, rd, codec>>

(* ----------------------------- ReadSeeker ------------------------------ *)

\* Service.ReadSeeker(since): the caller is handed the view the cache gives.
ReadSeeker(since) ==
    /\ svc.state = "Ready"
    /\ rd.pc # "open"
    /\ rd' = [pc |-> "open", since |-> since, view |-> CacheReadSeeker(cache, since),
              out |-> <<>>]
    /\ UNCHANGED <<cfg, svc, ctxErr, clock, repo, cache, hyd, loop, up, codec>>

\* The caller reads the view it holds to its end.
ReaderRead ==
    /\ rd.pc = "open"
    /\ rd' = [rd EXCEPT !.pc = "read", !.view = <<>>, !.out = rd.view]
    /\ UNCHANGED <<cfg, svc, ctxErr, clock, repo, cache, hyd, loop, up, codec>>

(* --------------------------- specification ----------------------------- *)

Next ==
    \/ NewService
    \/ HydrateFindAll
    \/ HydrateLastModified
    \/ HydrateSet
    \/ HydrateSeek
    \/ RefreshTick
    \/ RefreshDone
    \/ Cancel
    \/ \E u \in Uploads, diagKeys \in Batches, now \in Times : StoreBegin(u, diagKeys, now)
    \/ \E u \in Uploads : StoreDiagnosisKeys(u)
    \/ \E u \in Uploads : StoreCacheAdd(u)

Spec == Init /\ [][Next]_vars

\* The scheduler runs every started goroutine and every call returns: a
\* started hydration takes its steps, a started Add goroutine runs, and a
\* select that finds ctx.Done() ready again and again takes that case.
Fairness ==
    /\ WF_vars(NewService)
    /\ WF_vars(HydrateFindAll)
    /\ WF_vars(HydrateLastModified)
    /\ WF_vars(HydrateSet)
    /\ WF_vars(HydrateSeek)
    /\ SF_vars(RefreshDone)
    /\ \A u \in Uploads : WF_vars(StoreDiagnosisKeys(u)) /\ WF_vars(StoreCacheAdd(u))

FairSpec == Init /\ [][Next]_vars /\ Fairness

\* The Service with a caller of ReadSeeker next to its writers.
ReadNext ==
    \/ Next
    \/ \E since \in Sinces : ReadSeeker(since)
    \/ ReaderRead

ReadSpec == Init /\ [][ReadNext]_vars

(* -------------------------------- codec -------------------------------- *)

\* A caller of the codec alone: it either hands records to
\* writeDiagnosisKeys and parses what was written, or hands a reader to
\* ParseDiagnosisKeys.
CodecInit ==
    /\ cfg = [Logger |-> FALSE, MaxUploadBatchSize |-> 0]
    /\ repo = <<>>
    /\ svc = [state |-> "Uninitialized", maxUploadBatchSize |-> 0, hydrations |-> 0,
              err |-> "none"]
    /\ ctxErr = Nil
    /\ clock = StartClock
    /\ cache = EmptyCache
    /\ hyd = IdleHydrate
    /\ loop = [pc |-> "none", log |-> "none"]
    /\ up = [u \in Uploads |-> IdleUpload]
    /\ rd = IdleReader
    /\ codec \in { [IdleCodec EXCEPT !.pc = "write", !.start = "write", !.diagKeys = ds] :
                       ds \in RecordSeqs }
                 \cup { [IdleCodec EXCEPT !.pc = "parse", !.start = "parse", !.r = r] :
                          r \in ReadAlls }

\* writeDiagnosisKeys(w, diagKeys...): every Write of the writer may fail,
\* which ends the call with that error and what was written before; after a
\* call that went through the caller parses the bytes written.
CodecWrite ==
    /\ codec.pc = "write"
    /\ \E writes \in 0..(2 * Len(codec.diagKeys)) :
          codec' = [codec EXCEPT
                      !.w = Written(codec.diagKeys, writes),
                      !.werr = IF writes < 2 * Len(codec.diagKeys) THEN ErrOther ELSE Nil,
                      !.r = [buf |-> IF writes < 2 * Len(codec.diagKeys) THEN <<>>
                                     ELSE Written(codec.diagKeys, writes),
                             err |-> Nil],
                      !.pc = IF writes < 2 * Len(codec.diagKeys) THEN "done" ELSE "parse"]
    /\ UNCHANGED <<cfg, svc, ctxErr, clock, repo, cache, hyd, loop, up, rd>>

\* diagKeys, err := ParseDiagnosisKeys(r)
CodecParse ==
    /\ codec.pc = "parse"
    /\ codec' = [codec EXCEPT !.pc = "done",
                              !.out = ParseDiagnosisKeys(codec.r.buf, codec.r.err)[1],
                              !.err = ParseDiagnosisKeys(codec.r.buf, codec.r.err)[2]]
    /\ UNCHANGED <<cfg, svc, ctxErr, clock, repo, cache, hyd, loop, up, rd>>

CodecNext == CodecWrite \/ CodecParse

CodecSpec == CodecInit /\ [][CodecNext]_vars

(* ------------------------------- claims -------------------------------- *)

\* The step in which StoreDiagnosisKeys call u returns to its caller.
Returns(u) == up[u].pc = "store" /\ up'[u].pc = "returned"

\* C1: a StoreDiagnosisKeys call whose batch is longer than the configured
\* maximum returns ErrMaxUploadExceeded, writes nothing to the Repository and
\* starts no cache Add.
BatchLimit ==
    [][\A u \in Uploads :
          Returns(u) /\ Len(up[u].diagKeys) > svc.maxUploadBatchSize
             => /\ up'[u].err = ErrMaxUploadExceeded
                /\ repo' = repo
                /\ up'[u].add = "none"]_vars

\* C2: a StoreDiagnosisKeys call with zero records returns ErrNilDiagKeys and
\* leaves the Repository and the Cache as they were: no write, and no Add is
\* started that would touch the cache later.
EmptyInput ==
    [][\A u \in Uploads :
          Returns(u) /\ up[u].diagKeys = <<>>
             => /\ up'[u].err = ErrNilDiagKeys
                /\ repo' = repo
                /\ cache' = cache
                /\ up'[u].add = "none"]_vars

\* C3: when the Repository write of a StoreDiagnosisKeys call fails, the call
\* has returned that error and no cache Add was started for its batch, in
\* that step or ever after.
DurabilityError ==
    \A u \in Uploads :
       up[u].err # Nil
          => /\ up[u].pc = "returned"
             /\ up[u].err = ErrOther
             /\ up[u].add = "none"
             /\ up[u].addKeys = <<>>

\* C3: the Repository write of one call has failed and the batch of
\* another, successful call has been added to the cache.
DurabilityErrorWitness ==
    \E u, v \in Uploads :
       /\ up[u].err # Nil
       /\ up[v].add = "Cached new diagnosis keys."
       /\ cache.buf # <<>>

\* The records of `diagKeys`, stamped `at`, stand next to each other in r.
StoredIn(r, diagKeys, at) ==
    \E off \in 0..(Len(r) - Len(diagKeys)) :
       \A i \in 1..Len(diagKeys) :
          r[off + i] = [diagKeys[i] EXCEPT !.UploadedAt = at]

AddStarted(u) == up[u].add # "none"

AddRan(u) == up[u].add \in {"Cached new diagnosis keys.", "Could not add to cache."}

\* C4: in the step in which StoreDiagnosisKeys returns success the Repository
\* holds the batch under the call's timestamp and one Add goroutine is started
\* for that batch and that timestamp; an Add is started in no other step, so
\* never before the write; it runs at most once, appending that batch, and
\* once started it eventually runs.
DurableThenCached ==
    /\ [][\A u \in Uploads :
            /\ Returns(u) /\ up'[u].err = Nil
                  => /\ StoredIn(repo', up[u].diagKeys, up[u].now)
                     /\ up'[u].add = "pending"
                     /\ up'[u].addKeys = up[u].diagKeys
                     /\ up'[u].addAt = up[u].now
            /\ ~AddStarted(u) /\ AddStarted(u)'
                  => Returns(u) /\ up'[u].err = Nil /\ up'[u].add = "pending"
            /\ up[u].add = "pending" /\ up'[u].add = "Cached new diagnosis keys."
                  => /\ cache'.buf = cache.buf \o writeDiagnosisKeys(up[u].addKeys)
                     /\ cache'.lastModified >= up[u].addAt
            /\ AddRan(u) => up'[u].add = up[u].add]_vars
    /\ [](\A u \in Uploads :
            /\ up[u].pc = "returned" /\ up[u].err = Nil => AddStarted(u)
            /\ up[u].add = "pending" => StoredIn(repo, up[u].addKeys, up[u].addAt))
    /\ \A u \in Uploads : (up[u].add = "pending") ~> AddRan(u)

\* C4: a call has returned success, the clock has moved on from its
\* timestamp and its Add is still to run, while another call's Add has run.
DurableThenCachedWitness ==
    \E u, v \in Uploads :
       /\ up[u].pc = "returned" /\ up[u].err = Nil
       /\ up[u].add = "pending"
       /\ up[u].addKeys # <<>>
       /\ up[u].addAt < clock
       /\ up[v].add = "Cached new diagnosis keys."

\* C5: what StoreDiagnosisKeys returned stays what it was, whatever the Add
\* goroutine or a hydration of the refresh loop does afterwards, and it is
\* success exactly when the Repository write was made; a failed Add or a
\* failed periodic hydration leaves the Service ready for the next upload
\* and the refresh goroutine running unless the context is done.
CacheErrorsNotSurfaced ==
    /\ [](\A u \in Uploads :
            /\ up[u].pc = "returned" /\ up[u].err = Nil => AddStarted(u)
            /\ up[u].pc = "returned" /\ up[u].err # Nil => ~AddStarted(u)
            /\ up[u].add = "Could not add to cache."
                  => /\ up[u].err = Nil
                     /\ svc.state = "Ready"
                     /\ \A v \in Uploads :
                          up[v].pc = "idle" /\ (\A w \in 1..(v - 1) : up[w].pc # "idle")
                             => ENABLED StoreBegin(v, <<DK2, DK1>>, clock))
    /\ [](loop.log \in {"Could not refresh cache", "Could not seek cache"}
            => /\ svc.state = "Ready"
               /\ loop.pc = "stopped" => ctxErr # Nil
               /\ loop.pc = "wait" => ENABLED RefreshTick)
    /\ [][\A u \in Uploads :
            up[u].pc = "returned" => up'[u].pc = "returned" /\ up'[u].err = up[u].err]_vars

\* C5: an Add has failed for a call that had returned success, a periodic
\* hydration has failed, and a later upload went through to the cache.
CacheErrorsNotSurfacedWitness ==
    \E u, v \in Uploads :
       /\ u < v
       /\ up[u].add = "Could not add to cache."
       /\ up[u].err = Nil
       /\ up[v].add = "Cached new diagnosis keys."
       /\ loop.log = "Could not refresh cache"
       /\ loop.pc = "hydrate"

\* No StoreDiagnosisKeys call is under way and no Add goroutine is left to run.
Quiescent == \A u \in Uploads : up[u].pc # "store" /\ up[u].add # "pending"

\* C6: once a periodic hydration that followed successful uploads has come
\* through and every Add has run, in whatever order they interleaved, the
\* cache holds no record twice: its buffer is not longer than 20 bytes for
\* each record of the Repository.
NoDuplication ==
    /\ loop.log = "Cache refreshed."
    /\ hyd.pc = "idle"
    /\ Quiescent
    /\ \E u \in Uploads : up[u].pc = "returned" /\ up[u].err = Nil
    => Len(cache.buf) <= DiagnosisKeySize * Len(repo)

\* The step in which a hydrateCache call of the refresh loop returns nil.
PeriodicHydrateSucceeds ==
    /\ loop.pc = "hydrate"
    /\ hyd.pc \in {"lastmod", "set"}
    /\ hyd'.pc = "seek"

\* C7: when uploads have stopped, every Add has run and a periodic hydration
\* that read the Repository as it now is returns success, the cache's buffer
\* is the encoding of the Repository's records and its freshness timestamp is
\* the Repository's LastModified.
SelfHealing ==
    [][PeriodicHydrateSucceeds /\ Quiescent /\ hyd.diagKeys = repo
          => /\ cache'.buf = writeDiagnosisKeys(repo)
             /\ cache'.lastModified = RepoLastModified(repo)[1]]_vars

\* C7, for a Repository that holds records: the hydration then reaches Set,
\* and the snapshot it installs is the Repository's.
SelfHealingNonEmptyRepo ==
    [][PeriodicHydrateSucceeds /\ Quiescent /\ hyd.diagKeys = repo /\ repo # <<>>
          => /\ cache'.buf = writeDiagnosisKeys(repo)
             /\ cache'.offsets = SetOffsets(repo, <<>>, 0)
             /\ cache'.lastModified = RepoLastModified(repo)[1]]_vars

\* NewService has returned, with the Service or with an error.
NewServiceReturned == svc.state \in {"Ready", "Failed"}

\* C8 as stated: every NewService call has run hydrateCache exactly once by
\* the time it returns; a failed hydration makes it return an error with no
\* refresh goroutine started; the goroutine runs only for a Ready Service,
\* and a Service is Ready only after its first hydration succeeded.
StartupSequenceAsStated ==
    /\ NewServiceReturned => svc.hydrations = 1
    /\ svc.err \notin {"none", Nil} => svc.state = "Failed"
    /\ svc.state # "Ready" => loop.pc = "none"
    /\ svc.state = "Ready" => svc.err = Nil /\ loop.pc # "none"

\* C8, amended: a NewService call given a Logger has run hydrateCache exactly
\* once by the time it returns, and one given no Logger returns an error
\* without hydrating; a failed hydration makes the call return an error; the
\* refresh goroutine is started in the step that makes the Service Ready,
\* which follows a successful first hydration, and in no other.
StartupSequence ==
    /\ [](/\ NewServiceReturned => svc.hydrations = IF cfg.Logger THEN 1 ELSE 0
          /\ svc.state = "Hydrating" => svc.hydrations = 1
          /\ svc.state = "Hydrating" /\ hyd.pc = "seek" => svc.err = Nil
          /\ svc.err \notin {"none", Nil} => svc.state = "Failed"
          /\ svc.state # "Ready" => loop.pc = "none"
          /\ svc.state = "Ready" => cfg.Logger /\ svc.err = Nil /\ loop.pc # "none")
    /\ [][/\ svc.state # "Ready" /\ svc'.state = "Ready"
                => svc.state = "Hydrating" /\ hyd.pc = "seek" /\ svc.err = Nil
          /\ svc.state = "Failed" => svc'.state = "Failed" /\ loop'.pc = "none"
          /\ svc.state = "Ready" => svc'.state = "Ready"]_vars

\* C8: NewService has just returned a Service over a Repository that holds a
\* record: its one hydration set the cache and the refresh goroutine waits
\* for its first tick.
StartupSequenceWitness ==
    /\ svc.state = "Ready"
    /\ svc.hydrations = 1
    /\ repo # <<>>
    /\ cache = CacheSet(repo, RepoLastModified(repo)[1])
    /\ loop = [pc |-> "wait", log |-> "none"]
    /\ \A u \in Uploads : up[u].pc = "idle"

\* C9: the refresh goroutine ends only when the context is done, and only
\* from its select; a hydration or seek that fails in the loop takes it back
\* to the select, where the next tick starts the next hydration.
RefreshResilience ==
    /\ [](/\ loop.pc = "stopped" => ctxErr # Nil
          /\ loop.pc = "wait" => ENABLED RefreshTick)
    /\ [][/\ loop.pc # "stopped" /\ loop'.pc = "stopped"
                => loop.pc = "wait" /\ ctxErr # Nil
          /\ loop.pc = "hydrate" /\ hyd.pc # "idle" /\ hyd'.pc = "idle"
                => loop'.pc = "wait"
          /\ loop.pc = "hydrate" /\ loop'.log # loop.log
                => loop'.pc = "wait"]_vars

\* C9: a periodic hydration has failed and the loop is hydrating again.
RefreshResilienceWitness ==
    /\ loop.log = "Could not refresh cache"
    /\ loop.pc = "hydrate"
    /\ hyd.pc = "set"
    /\ ctxErr = Nil

\* C10: once the context is done a started refresh goroutine eventually ends,
\* and once ended it stays ended: it takes no tick, starts no hydration and
\* sets no snapshot.
Cancellation ==
    /\ (ctxErr # Nil /\ loop.pc # "none") ~> (loop.pc = "stopped")
    /\ [][loop.pc = "stopped"
             => /\ loop' = loop
                /\ hyd' = hyd
                /\ cache' # cache => \E u \in Uploads : up[u].add # up'[u].add]_vars

\* C10: the context was cancelled while a periodic hydration was under way;
\* the goroutine has ended and an upload arrives afterwards.
CancellationWitness ==
    /\ loop.pc = "stopped"
    /\ ctxErr = Canceled
    /\ loop.log = "Could not seek cache"
    /\ \E u \in Uploads : up[u].pc = "store"

\* C11: when the Repository has no records, so that its LastModified reports
\* the sentinel ErrNilDiagKeys, hydrateCache can return nil and never hands
\* the sentinel to its caller as an error, and it does not go on to Set; a
\* NewService call over such a Repository goes on to Ready, and the Service
\* it returns has the zero timestamp as LastModified() and an empty full
\* export until an upload arrives.
BenignEmpty ==
    /\ [](/\ svc.err # ErrNilDiagKeys
          /\ hyd.pc = "lastmod" /\ repo = <<>>
                => ENABLED (HydrateLastModified /\ hyd'.pc = "seek")
          /\ svc.state = "Ready" /\ repo = <<>> /\ (\A u \in Uploads : up[u].pc = "idle")
                => /\ CacheLastModified(cache) = ZeroTime
                   /\ CacheReadSeeker(cache, ZeroTime) = <<>>)
    /\ [][/\ hyd.pc = "lastmod" /\ repo = <<>> => hyd'.pc # "set"
          /\ hyd.pc = "lastmod" /\ repo = <<>> /\ hyd'.pc = "seek"
                => /\ svc'.state = svc.state
                   /\ svc'.err = (IF svc.state = "Hydrating" THEN Nil ELSE svc.err)
                   /\ loop' = loop
                   /\ cache' = cache]_vars

\* C11: NewService has returned a Service over a Repository with no records
\* and a periodic hydration has met the sentinel as well.
BenignEmptyWitness ==
    /\ svc.state = "Ready"
    /\ svc.err = Nil
    /\ repo = <<>>
    /\ loop = [pc |-> "wait", log |-> "Cache refreshed."]
    /\ \A u \in Uploads : up[u].pc = "idle"
    /\ CacheLastModified(cache) = ZeroTime
    /\ CacheReadSeeker(cache, ZeroTime) = <<>>

\* What the wire format carries of a record: its key and its interval.
OnWire(diagKeys) ==
    [i \in 1..Len(diagKeys) |->
        DiagnosisKey(diagKeys[i].TemporaryExposureKey, diagKeys[i].ENIntervalNumber)]

\* The caller has written its records and parsed the bytes written.
RoundTripDone == codec.pc = "done" /\ codec.start = "write" /\ codec.werr = Nil

\* C12 as stated: for any sequence of records, parsing what
\* writeDiagnosisKeys wrote gives the records back, key and interval.
RoundTripAsStated ==
    RoundTripDone => codec.err = Nil /\ codec.out = OnWire(codec.diagKeys)

\* C12, amended: for any sequence of at least one record, parsing what
\* writeDiagnosisKeys wrote gives the records back, key and interval; for
\* the empty sequence nothing is written and parsing it gives
\* ErrUnexpectedEOF and no records.
RoundTrip ==
    /\ RoundTripDone /\ codec.diagKeys # <<>>
          => /\ codec.err = Nil
             /\ codec.out = OnWire(codec.diagKeys)
             /\ Len(codec.w) = DiagnosisKeySize * Len(codec.diagKeys)
    /\ RoundTripDone /\ codec.diagKeys = <<>>
          => codec.w = <<>> /\ codec.err = ErrUnexpectedEOF /\ codec.out = <<>>

\* C12: two records that carry an UploadedAt, the first with four different
\* interval bytes, have been written and parsed back.
RoundTripWitness ==
    /\ RoundTripDone
    /\ Len(codec.diagKeys) = 2
    /\ codec.diagKeys[1].ENIntervalNumber = 16909060
    /\ codec.diagKeys[1].UploadedAt # ZeroTime
    /\ codec.diagKeys[2] # codec.diagKeys[1]
    /\ Len(codec.out) = 2

\* The caller has parsed a reader whose bytes could all be read.
ParseDone == codec.pc = "done" /\ codec.start = "parse" /\ codec.r.err \in {Nil, EOF}

\* C13: ParseDiagnosisKeys on no bytes, or on a number of bytes that is no
\* multiple of 20, returns ErrUnexpectedEOF and no records; on 20*k bytes,
\* k >= 1, it returns k records in the order of the bytes, record i with the
\* 16 bytes from 20(i-1) as its key and the next four, big endian, as its
\* interval, and no UploadedAt.
DecodeShape ==
    /\ ParseDone /\ (Len(codec.r.buf) = 0 \/ Len(codec.r.buf) % 20 # 0)
          => codec.err = ErrUnexpectedEOF /\ codec.out = <<>>
    /\ ParseDone /\ Len(codec.r.buf) > 0 /\ Len(codec.r.buf) % 20 = 0
          => /\ codec.err = Nil
             /\ Len(codec.out) * 20 = Len(codec.r.buf)
             /\ \A i \in 1..Len(codec.out) :
                   /\ \A j \in 1..16 :
                         codec.out[i].TemporaryExposureKey[j] = codec.r.buf[20 * (i - 1) + j]
                   /\ Len(codec.out[i].TemporaryExposureKey) = 16
                   /\ codec.out[i].ENIntervalNumber
                         = codec.r.buf[20 * (i - 1) + 17] * 16777216
                           + codec.r.buf[20 * (i - 1) + 18] * 65536
                           + codec.r.buf[20 * (i - 1) + 19] * 256
                           + codec.r.buf[20 * (i - 1) + 20]
                   /\ codec.out[i].UploadedAt = ZeroTime

\* C13: 40 bytes have been parsed into two records.
DecodeShapeWitness ==
    /\ ParseDone
    /\ Len(codec.r.buf) = 40
    /\ codec.err = Nil
    /\ codec.out = <<DK2, DK1>>

ExportFraming ==
    /\ \A since \in Sinces : Len(CacheReadSeeker(cache, since)) % DiagnosisKeySize = 0
    /\ \A i \in 1..Len(cache.offsets) : cache.offsets[i].offset % DiagnosisKeySize = 0
    /\ Len(rd.view) % DiagnosisKeySize = 0
    /\ Len(rd.out) % DiagnosisKeySize = 0

\* C15: a caller has read a view that starts inside the buffer, while an
\* Add is still to run and a hydration is about to set the cache.
ExportFramingWitness ==
    /\ rd.pc = "read"
    /\ rd.since # ZeroTime
    /\ rd.out # <<>>
    /\ Len(rd.out) < Len(cache.buf)
    /\ hyd.pc = "set"
    /\ \E u \in Uploads : up[u].add = "pending"

\* The 20-byte records of a buffer.
Chunks(buf) ==
    [i \in 1..(Len(buf) \div DiagnosisKeySize) |->
        SubSeq(buf, (i - 1) * DiagnosisKeySize + 1, i * DiagnosisKeySize)]

\* Two sequences hold the same elements, each as often.
SameBag(a, b) ==
    /\ Len(a) = Len(b)
    /\ \A i \in 1..Len(a) :
          Cardinality({ j \in 1..Len(a) : a[j] = a[i] })
             = Cardinality({ j \in 1..Len(b) : b[j] = a[i] })

\* The records of the Repository uploaded on the day of `since` or later.
UploadedSince(r, since) ==
    SelectSeq(r, LAMBDA k : TruncateDay(k.UploadedAt) >= TruncateDay(since))

\* Every batch a caller hands in is within the Service's limit.
WithinLimit == \A diagKeys \in Batches : Len(diagKeys) <= svc.maxUploadBatchSize

\* The uploads were within the limit; the cache holds the records of the
\* Repository, each once, in some order, and its day index has the days
\* records were uploaded on and no other.
CacheHoldsRepo ==
    /\ WithinLimit
    /\ SameBag(Chunks(cache.buf), Chunks(writeDiagnosisKeys(repo)))
    /\ { cache.offsets[i].day : i \in 1..Len(cache.offsets) }
          = { TruncateDay(repo[j].UploadedAt) : j \in 1..Len(repo) }

\* C16: when the cache holds the Repository's records, whatever Sets and
\* Adds brought them there, the view ReadSeeker gives for a day holds the
\* records uploaded on that day or later, all of them and no other; for a
\* day after the last upload it holds no bytes.
DayWindow ==
    [][rd.pc # "open" /\ rd'.pc = "open" /\ rd'.since # ZeroTime /\ CacheHoldsRepo
          => SameBag(Chunks(rd'.view),
                     Chunks(writeDiagnosisKeys(UploadedSince(repo, rd'.since))))]_vars

\* C16, for a cache whose day index ascends: when the Adds ran in the order
\* of their timestamps the view of a day holds the records uploaded on that
\* day or later and no other.
DayWindowInOrder ==
    [][(/\ rd.pc # "open" /\ rd'.pc = "open" /\ rd'.since # ZeroTime /\ CacheHoldsRepo
        /\ \A i, j \in 1..Len(cache.offsets) :
              i < j => cache.offsets[i].day < cache.offsets[j].day)
          => SameBag(Chunks(rd'.view),
                     Chunks(writeDiagnosisKeys(UploadedSince(repo, rd'.since))))]_vars

\* C17: a hydration that follows another with no upload in between leaves
\* the snapshot as it was, buffer, day index and freshness timestamp: from
\* the return of NewService, which hydrated once, to the first upload no
\* periodic hydration changes the cache; and the snapshot a hydration
\* installs is that of the records and the timestamp it read, whatever the
\* cache held before.
IdempotentHydration ==
    [][/\ (/\ svc.state = "Ready"
           /\ \A u \in Uploads : up[u].pc = "idle" /\ up'[u].pc = "idle")
             => cache' = cache
       /\ hyd.pc = "set" /\ hyd'.pc # "set" /\ cache' # cache
             => cache' = CacheSet(hyd.diagKeys, hyd.lastModified)]_vars

\* C17: over a Repository that holds a record and with no upload so far, a
\* second periodic hydration has set the cache after NewService's own.
IdempotentHydrationWitness ==
    /\ svc.state = "Ready"
    /\ \A u \in Uploads : up[u].pc = "idle"
    /\ repo # <<>>
    /\ loop = [pc |-> "hydrate", log |-> "Cache refreshed."]
    /\ hyd.pc = "seek"
    /\ cache = CacheSet(repo, RepoLastModified(repo)[1])

\* C18: a hydration changes the cache in its Set and in no other step. A
\* FindAllDiagnosisKeys that fails ends the hydration: LastModified is not
\* queried. A LastModified that fails or reports the sentinel ends it as
\* well: Set is reached only from a LastModified that returned a timestamp.
\* The cache is changed by Set and by the Add goroutines alone, so a
\* hydration that ends before Set leaves buffer, day index and freshness
\* timestamp as they were.
HydrationFrame ==
    [][/\ hyd.pc \in {"findall", "lastmod"} /\ hyd'.pc # hyd.pc => cache' = cache
       /\ hyd.pc = "findall" /\ hyd'.pc # "findall" => hyd'.pc \in {"lastmod", "idle"}
       /\ hyd.pc = "lastmod" /\ hyd'.pc # "lastmod"
             => /\ hyd'.pc \in {"set", "seek", "idle"}
                /\ hyd'.pc = "set" => repo # <<>> /\ hyd'.lastModified = RepoLastModified(repo)[1]
                /\ repo = <<>> => hyd'.pc # "set"
       /\ hyd.pc # "set" /\ hyd'.pc = "set" => hyd.pc = "lastmod"
       /\ cache' # cache
             => \/ hyd.pc = "set" /\ hyd'.pc # "set"
                \/ \E u \in Uploads : up[u].add = "pending" /\ up'[u].add # "pending"]_vars

\* C18: an Add has failed, so the cache lacks records the Repository holds,
\* and a periodic hydration has failed before its Set: the cache still
\* holds what it held, and the loop waits for the next tick.
HydrationFrameWitness ==
    /\ \E u \in Uploads : up[u].add = "Could not add to cache."
    /\ loop = [pc |-> "wait", log |-> "Could not refresh cache"]
    /\ hyd.pc = "idle"
    /\ cache.buf # <<>>
    /\ Len(cache.buf) < DiagnosisKeySize * Len(repo)

\* Every upload that returned success had records: the Repository has grown
\* by a batch of records for each of them.
EveryUploadHadRecords ==
    \E c \in Constructions :
       /\ c.cfg = cfg
       /\ \A diagKeys \in Batches \ {<<>>} :
             Len(repo) - Len(c.repo)
                >= Len(diagKeys) * Cardinality({ u \in Uploads :
                                                  up[u].pc = "returned" /\ up[u].err = Nil })

\* No two uploads were given the same timestamp: the Repository holds no
\* more records of one upload timestamp than a batch has.
DistinctTimestamps ==
    \A t \in Times, diagKeys \in Batches \ {<<>>} :
       Cardinality({ j \in 1..Len(repo) : repo[j].UploadedAt = t }) <= Len(diagKeys)

\* Every element of a is in b at least as often as in a.
SubBag(a, b) ==
    \A i \in 1..Len(a) :
       Cardinality({ j \in 1..Len(a) : a[j] = a[i] })
          <= Cardinality({ j \in 1..Len(b) : b[j] = a[i] })

\* The records of the Repository uploaded at or before t.
UploadedUpTo(r, t) == SelectSeq(r, LAMBDA k : k.UploadedAt <= t)

\* C19: in every state the full export, ReadSeeker of the zero timestamp,
\* holds every record the Repository holds with an upload timestamp at or
\* before the Service's LastModified(); the uploads are within the limit,
\* none is empty and no two have the same timestamp.
FreshnessImpliesPresence ==
    WithinLimit /\ EveryUploadHadRecords /\ DistinctTimestamps
       => SubBag(Chunks(writeDiagnosisKeys(UploadedUpTo(repo, CacheLastModified(cache)))),
                 Chunks(CacheReadSeeker(cache, ZeroTime)))

====
